---- MODULE Spec2Model ----
(***************************************************************************)
(* A model of the cross-validation toolkit of ms1-ml-project-v2:           *)
(*   src/src/utils.py                      create_validation_set,          *)
(*                                         KFold_cross_validation_KNN,     *)
(*                                         run_cv_for_hyperparam, metrics  *)
(*   src/src/methods/linear_regression.py  LinearRegression                *)
(*                                                                         *)
(* Arrays are sequences (1-based here, 0-based in the source; the index    *)
(* VALUES are the source's, 0..N-1).  Real numbers are exact fractions     *)
(* <<num, den>>.  np.random.shuffle is a nondeterministic choice of a      *)
(* permutation.                                                            *)
(*                                                                         *)
(* Five specifications share the variables below:                          *)
(*   SpecFold   the index bookkeeping of one sweep (permutation, folds)    *)
(*   SpecSweep  the performance values of one sweep and the selection      *)
(*   SpecSplit  create_validation_set                                      *)
(*   SpecLR     the life of one LinearRegression object                    *)
(*   SpecOneHot label_to_onehot followed by onehot_to_label                *)
(***************************************************************************)
EXTENDS Integers, Sequences, FiniteSets, TLC

VARIABLES
    \* ---- inputs of run_cv_for_hyperparam / KFold_cross_validation_KNN
    N,                \* X.shape[0]
    K,                \* number of folds
    M,                \* method name
    T,                \* task name
    k_list,           \* candidate neighbour counts
    \* ---- run_cv_for_hyperparam: loop position and result
    cand,             \* 1-based position of the for loop over k_list
    model_performance,
    best_k,
    best_value,       \* the local named max in the source
    \* ---- KFold_cross_validation_KNN: locals of the running call
    all_indices,
    fold_ind,
    val_blocks,       \* the val_ind of each fold of the running call, in order
    train_blocks,     \* the train_ind of each fold of the running call
    prev_val_blocks,  \* the val_blocks of the previous candidate's call
    fit_calls,        \* number of model.fit calls so far
    predict_calls,    \* number of model.predict calls so far
    \* ---- create_validation_set
    data, labels, split_ratio, split_out,
    \* ---- LinearRegression object
    weights, lmda, lr_last_fit, lr_out,
    \* ---- label_to_onehot / onehot_to_label
    oh_labels,        \* the labels argument
    oh_C,             \* the C argument, or None
    one_hot_labels,   \* what label_to_onehot returned
    oh_decoded,       \* what onehot_to_label returned for it
    \* ---- control
    pc,               \* position in the running function
    err               \* the exception that ended it, or "none"

foldVars  == <<N, K, M, T, k_list, cand, all_indices, fold_ind, val_blocks,
               train_blocks, prev_val_blocks, fit_calls, predict_calls>>
sweepVars == <<model_performance, best_k, best_value>>
splitVars == <<data, labels, split_ratio, split_out>>
lrVars    == <<weights, lmda, lr_last_fit, lr_out>>
ohVars    == <<oh_labels, oh_C, one_hot_labels, oh_decoded>>
vars      == <<foldVars, sweepVars, splitVars, lrVars, ohVars, pc, err>>

\* python's None (the empty tuple, so that it compares with every array,
\* fraction and record)
None == <<>>

(***************************************************************************)
(* Bounds of the model.                                                    *)
(***************************************************************************)
MaxN    == 4     \* largest number of samples, index-level specifications
MaxK    == 3     \* largest number of folds
MaxCand == 2     \* longest k_list of SpecFold
MaxSplitN == 3   \* largest number of samples given to create_validation_set
MaxDen  == 4     \* largest denominator of a split_ratio
MaxLabel == 1    \* largest label / feature value of SpecSplit
LRMaxRows == 1   \* most rows of an array given to LinearRegression
LRMaxVal  == 2   \* largest entry of such an array
LRMaxLmda == 2   \* largest lmda
MaxNeighbors == 5  \* largest candidate k of SpecSweep
FoldSize == 500  \* N // K of SpecSweep, the samples of one validation block
MaxOneHotN == 3  \* longest label vector of SpecOneHot
MaxClasses == 3  \* largest number of classes C of SpecOneHot

(***************************************************************************)
(* numpy / python helpers                                                  *)
(***************************************************************************)
Min(a, b) == IF a <= b THEN a ELSE b

Range(s) == {s[i] : i \in DOMAIN s}

\* np.arange(n) : <<0, 1, ..., n-1>>
arange(n) == [i \in 1..n |-> i - 1]

\* the outcomes of np.random.shuffle(a): every rearrangement of a
shuffle(a) ==
    {p \in [DOMAIN a -> Range(a)] :
        \A i, j \in DOMAIN a : i # j => p[i] # p[j]}

\* python a[lo:hi] for 0 <= lo, 0 <= hi (indices past the end are clipped)
Slice(a, lo, hi) == SubSeq(a, lo + 1, Min(hi, Len(a)))

\* the ascending sequence of the members of a finite set of integers
RECURSIVE SortedSeq(_)
SortedSeq(S) ==
    IF S = {} THEN <<>>
    ELSE LET m == CHOOSE x \in S : \A y \in S : x <= y
         IN  <<m>> \o SortedSeq(S \ {m})

\* np.setdiff1d(a, b): the sorted unique values of a that are not in b
setdiff1d(a, b) == SortedSeq(Range(a) \ Range(b))

(***************************************************************************)
(* Exact fractions <<num, den>> with den > 0, in lowest terms.             *)
(***************************************************************************)
Abs(x) == IF x < 0 THEN -x ELSE x

RECURSIVE Gcd(_, _)
Gcd(a, b) == IF b = 0 THEN a ELSE Gcd(b, a % b)

Frac(n, d) ==
    LET g == Gcd(Abs(n), Abs(d))
        sgn == IF d < 0 THEN -1 ELSE 1
    IN  <<sgn * (n \div g), sgn * (d \div g)>>

FracInt(n)    == <<n, 1>>
FracAdd(x, y) == Frac(x[1] * y[2] + y[1] * x[2], x[2] * y[2])
FracMul(x, y) == Frac(x[1] * y[1], x[2] * y[2])
FracDiv(x, y) == Frac(x[1] * y[2], x[2] * y[1])
FracLeq(x, y) == x[1] * y[2] <= y[1] * x[2]
FracLt(x, y)  == x[1] * y[2] < y[1] * x[2]

(***************************************************************************)
(* Values a specification leaves alone.                                    *)
(***************************************************************************)
FoldIdle ==
    /\ N = 0 /\ K = 0 /\ M = None /\ T = None /\ k_list = <<>> /\ cand = 0
    /\ all_indices = <<>> /\ fold_ind = 0 /\ val_blocks = <<>>
    /\ train_blocks = <<>> /\ prev_val_blocks = <<>>
    /\ fit_calls = 0 /\ predict_calls = 0

SweepIdle == model_performance = <<>> /\ best_k = None /\ best_value = None

SplitIdle == data = <<>> /\ labels = <<>> /\ split_ratio = None /\ split_out = None

LRIdle == weights = None /\ lmda = None /\ lr_last_fit = None /\ lr_out = None

OneHotIdle ==
    /\ oh_labels = <<>> /\ oh_C = None
    /\ one_hot_labels = None /\ oh_decoded = None

(***************************************************************************)
(* SpecFold: run_cv_for_hyperparam calling KFold_cross_validation_KNN once *)
(* per candidate, followed index by index.  The KNN model's fit and        *)
(* predict are counted, not computed; the averaged performance is kept as  *)
(* "finite" or "nan" (the mean of an empty array).                         *)
(***************************************************************************)
Tasks   == {"breed_identifying", "center_locating", "unsupported_task"}
Methods == {"knn", "unsupported_method"}

\* range(1, n + 1), the shape of k_list in main
range1(n) == [i \in 1..n |-> i]

\* a slip: each block runs one index into the next one
ValIndOverlap(a, fold, n, k) ==
    LET split_size == n \div k
    IN  Slice(a, fold * split_size, (fold + 1) * split_size + 1)

\* a slip: the last block absorbs the remainder of the permutation
ValIndLastTakesTail(a, fold, n, k) ==
    LET split_size == n \div k
    IN  Slice(a, fold * split_size,
              IF fold = k - 1 THEN n ELSE (fold + 1) * split_size)

\* utils.py:190,193   val_ind = all_indices[fold*split : (fold+1)*split]
ValInd(a, fold, n, k) ==
    LET split_size == n \div k
    IN  Slice(a, fold * split_size, (fold + 1) * split_size)

\* utils.py:195       train_ind = np.setdiff1d(all_indices, val_ind)
TrainInd(a, val_ind) == setdiff1d(a, val_ind)

\* utils.py:202-206   is the local `model` bound after the if
ModelBound(m) == m = "knn"

\* utils.py:203,211,223   every task name but breed_identifying takes the
\* regression branch
IsClassification(t) == t = "breed_identifying"

InitFold ==
    /\ N \in 1..MaxN
    /\ K \in 2..MaxK
    /\ M \in Methods
    /\ T \in Tasks
    /\ k_list \in {range1(n) : n \in 1..MaxCand}
    /\ cand = 1
    /\ all_indices = <<>> /\ fold_ind = 0
    /\ val_blocks = <<>> /\ train_blocks = <<>> /\ prev_val_blocks = <<>>
    /\ fit_calls = 0 /\ predict_calls = 0
    /\ model_performance = <<>> /\ best_k = None /\ best_value = None
    /\ SplitIdle /\ LRIdle /\ OneHotIdle
    /\ pc = "sweep" /\ err = "none"

\* utils.py:244-245 and 182-186: the next candidate's call begins; it draws
\* its own permutation
KFoldEnter ==
    /\ pc = "sweep" /\ cand <= Len(k_list)
    /\ all_indices' \in shuffle(arange(N))
    /\ fold_ind' = 0
    /\ val_blocks' = <<>> /\ train_blocks' = <<>>
    /\ pc' = "fold"
    /\ UNCHANGED <<N, K, M, T, k_list, cand, prev_val_blocks, fit_calls,
                   predict_calls, sweepVars, splitVars, ohVars, lrVars, err>>

\* utils.py:187-217: one iteration of the fold loop; next_indices is what
\* the iteration leaves in all_indices
FoldStep(next_indices) ==
    /\ pc = "fold" /\ fold_ind < K
    /\ all_indices' \in next_indices
    /\ LET val_ind   == ValInd(all_indices, fold_ind, N, K)
           train_ind == TrainInd(all_indices, val_ind)
       IN  /\ val_blocks' = Append(val_blocks, val_ind)
           /\ train_blocks' = Append(train_blocks, train_ind)
           /\ IF ~ModelBound(M)
              THEN \* line 207: model.fit on an unbound local
                   /\ pc' = "error" /\ err' = "UnboundLocalError"
                   /\ UNCHANGED <<fit_calls, predict_calls, fold_ind>>
              ELSE /\ fit_calls' = fit_calls + 1
                   /\ predict_calls' = predict_calls + 1
                   /\ IF IsClassification(T) /\ val_ind = <<>>
                      THEN \* line 120: macrof1 / len(class_ids), 0 / 0
                           /\ pc' = "error" /\ err' = "ZeroDivisionError"
                           /\ UNCHANGED fold_ind
                      ELSE /\ fold_ind' = fold_ind + 1
                           /\ UNCHANGED <<pc, err>>
    /\ UNCHANGED <<N, K, M, T, k_list, cand, prev_val_blocks,
                   sweepVars, splitVars, ohVars, lrVars>>

\* a slip: the permutation is drawn again in every fold
KFoldFoldReshuffling == FoldStep(shuffle(all_indices))

\* utils.py:187-217: the loop body never assigns all_indices
KFoldFold == FoldStep({all_indices})

\* utils.py:222-227 and 245: the call returns its average, which the sweep
\* appends; the locals of the call end with it (its blocks are remembered in
\* prev_val_blocks)
KFoldReturn ==
    /\ pc = "fold" /\ fold_ind = K
    /\ model_performance' =
          Append(model_performance,
                 IF \E f \in DOMAIN val_blocks : val_blocks[f] = <<>>
                 THEN "nan" ELSE "finite")
    /\ cand' = cand + 1
    /\ prev_val_blocks' = val_blocks
    /\ all_indices' = <<>> /\ fold_ind' = 0
    /\ val_blocks' = <<>> /\ train_blocks' = <<>>
    /\ pc' = IF cand = Len(k_list) THEN "select" ELSE "sweep"
    /\ UNCHANGED <<N, K, M, T, k_list, fit_calls, predict_calls,
                   best_k, best_value, splitVars, ohVars, lrVars, err>>

NextFold == KFoldEnter \/ KFoldFold \/ KFoldReturn

SpecFold == InitFold /\ [][NextFold]_vars

(***************************************************************************)
(* Properties of SpecFold                                                  *)
(***************************************************************************)
AllIdx == 0 .. (N - 1)

Validated == UNION {Range(val_blocks[f]) : f \in DOMAIN val_blocks}

\* every fold of the running call has been built
CallComplete == pc = "fold" /\ fold_ind = K /\ Len(val_blocks) = K

\* C1: for K >= 2 and N >= K the validation blocks of one call are pairwise
\* disjoint, their union has at most N indices, and the training block of
\* fold f is exactly all N indices minus validation block f, of size
\* N - |block_f|.
C1_FoldPartition ==
    (K >= 2 /\ N >= K) =>
        /\ \A f, g \in DOMAIN val_blocks :
              f # g => Range(val_blocks[f]) \cap Range(val_blocks[g]) = {}
        /\ Cardinality(Validated) <= N
        /\ \A f \in DOMAIN train_blocks :
              /\ Range(train_blocks[f]) = AllIdx \ Range(val_blocks[f])
              /\ Len(train_blocks[f]) = N - Len(val_blocks[f])

C1_Witness ==
    /\ CallComplete /\ K >= 2 /\ N > K /\ N % K # 0
    /\ \A f \in DOMAIN val_blocks : val_blocks[f] # <<>>

C5_GuardedWhenKExceedsN ==
    K > N =>
        /\ val_blocks = <<>> /\ fit_calls = 0 /\ model_performance = <<>>
        /\ err \in {"none", "InvalidConfiguration"}

\* C6: when N is not divisible by K, exactly N mod K indices, the tail of
\* the permutation, are in no validation block of the call, and each of
\* them is in the training block of every fold.
C6_RemainderNeverValidated ==
    (CallComplete /\ N % K # 0) =>
        LET left == AllIdx \ Validated
        IN  /\ Cardinality(left) = N % K
            /\ left = Range(Slice(all_indices, N - (N % K), N))
            /\ \A f \in DOMAIN train_blocks : left \subseteq Range(train_blocks[f])

C6_Witness ==
    /\ CallComplete /\ N > K /\ N % K # 0 /\ Len(train_blocks) = K

\* C8: an unsupported task or model name is reported as a configuration
\* error before any fold is built and before any fit or predict.
C8_EagerConfigurationError ==
    (T \notin {"breed_identifying", "center_locating"} \/ M # "knn") =>
        /\ val_blocks = <<>> /\ fit_calls = 0 /\ predict_calls = 0
        /\ model_performance = <<>>
        /\ err \in {"none", "InvalidConfiguration"}

(***************************************************************************)
(* SpecSplit: create_validation_set(data, labels, split_ratio).            *)
(* split_ratio is a fraction <<p, q>> with 0 < p < q.                      *)
(***************************************************************************)
SplitRatios == {r \in (1..MaxDen) \X (2..MaxDen) : r[1] < r[2]}

\* numpy fancy indexing a[idx]
Take(a, idx) == [i \in 1..Len(idx) |-> a[idx[i] + 1]]

\* a slip: the size is rounded up
ValidationSetNbElementsCeil(ratio, n) ==
    (ratio[1] * n + ratio[2] - 1) \div ratio[2]

\* utils.py:154   int(split_ratio * N): int() drops the fractional part of a
\* non-negative product
ValidationSetNbElements(ratio, n) == (ratio[1] * n) \div ratio[2]

\* utils.py:150-164 for the shuffled index array a
SplitResult(a, d, l, ratio) ==
    LET n == Len(d)
        validation_set_nb_elements == ValidationSetNbElements(ratio, n)
        validation_set_indices == Slice(a, 0, validation_set_nb_elements)
        train_set_indices == Slice(a, validation_set_nb_elements, n)
    IN  [X_new_train |-> Take(d, train_set_indices),
         Y_new_train |-> Take(l, train_set_indices),
         X_new_test  |-> Take(d, validation_set_indices),
         Y_new_test  |-> Take(l, validation_set_indices),
         train_set_indices |-> train_set_indices,
         validation_set_indices |-> validation_set_indices]

InitSplit ==
    /\ \E n \in 1..MaxSplitN :
          /\ data \in [1..n -> 0..MaxLabel]
          /\ labels \in [1..n -> 0..MaxLabel]
    /\ split_ratio \in SplitRatios
    /\ split_out = None
    /\ FoldIdle /\ SweepIdle /\ LRIdle /\ OneHotIdle
    /\ pc = "call" /\ err = "none"

\* utils.py:150-164
CreateValidationSet ==
    /\ pc = "call"
    /\ \E a \in shuffle(arange(Len(data))) :
          split_out' = SplitResult(a, data, labels, split_ratio)
    /\ pc' = "done"
    /\ UNCHANGED <<foldVars, sweepVars, lrVars, ohVars, data, labels, split_ratio, err>>

NextSplit == CreateValidationSet

SpecSplit == InitSplit /\ [][NextSplit]_vars

\* C7: the validation set has exactly floor(split_ratio * N) samples and the
\* training set the other N - floor(split_ratio * N); the two index sets are
\* disjoint and together are 0..N-1; every returned label is the label of
\* the sample returned at the same position.
C7_SplitPartition ==
    pc = "done" =>
        LET n   == Len(data)
            vi  == split_out.validation_set_indices
            ti  == split_out.train_set_indices
            nv  == Len(split_out.X_new_test)
        IN  \* nv = floor(p * n / q):  nv <= p*n/q < nv + 1
            /\ nv * split_ratio[2] <= split_ratio[1] * n
            /\ split_ratio[1] * n < (nv + 1) * split_ratio[2]
            /\ Len(split_out.Y_new_test) = nv
            /\ Len(split_out.X_new_train) = n - nv
            /\ Len(split_out.Y_new_train) = n - nv
            /\ Range(vi) \cap Range(ti) = {}
            /\ Range(vi) \cup Range(ti) = 0 .. (n - 1)
            /\ Len(vi) = nv /\ Len(ti) = n - nv
            /\ \A i \in 1..nv :
                  /\ split_out.X_new_test[i] = data[vi[i] + 1]
                  /\ split_out.Y_new_test[i] = labels[vi[i] + 1]
            /\ \A i \in 1..(n - nv) :
                  /\ split_out.X_new_train[i] = data[ti[i] + 1]
                  /\ split_out.Y_new_train[i] = labels[ti[i] + 1]

C7_Witness ==
    /\ pc = "done" /\ Len(data) = MaxSplitN
    /\ Len(split_out.X_new_test) >= 1 /\ Len(split_out.X_new_train) >= 1
    /\ (split_ratio[1] * Len(data)) % split_ratio[2] # 0
    /\ \E i, j \in DOMAIN labels : labels[i] # labels[j]

(***************************************************************************)
(* SpecLR: one LinearRegression object and the calls made on it.           *)
(* training_data has one column (D = 1), so X^T X + lmda * I is the 1 x 1  *)
(* matrix [[sum x^2 + lmda]] and weights is one number.  A call that       *)
(* raises leaves the object to its caller, who may go on calling; pc names *)
(* the last call made and err the exception it ended in, if any.           *)
(***************************************************************************)
RECURSIVE SumSeq(_)
SumSeq(q) == IF q = <<>> THEN 0 ELSE Head(q) + SumSeq(Tail(q))

\* X.T @ Y for one-column X
Dot(x, y) == SumSeq([i \in DOMAIN x |-> x[i] * y[i]])

LRArrays == UNION {[1..n -> 0..LRMaxVal] : n \in 1..LRMaxRows}

\* np.linalg.inv of the 1 x 1 matrix [[a]] raises LinAlgError when a = 0
Singular(X, l) == Dot(X, X) + l = 0

\* a slip: a model that has weights keeps them
FitWeightsKeepOld(X, Y) ==
    IF weights # None THEN weights ELSE Frac(Dot(X, Y), Dot(X, X) + lmda)

\* linear_regression.py:30   inv(X.T @ X + lmda * I) @ X.T @ Y
FitWeights(X, Y) == Frac(Dot(X, Y), Dot(X, X) + lmda)

\* a slip: a model without weights answers zeros
matmulNoneAsZero(X, w) ==
    IF w = None
    THEN [raises |-> FALSE, value |-> [i \in DOMAIN X |-> FracInt(0)]]
    ELSE [raises |-> FALSE,
          value |-> [i \in DOMAIN X |-> FracMul(FracInt(X[i]), w)]]

\* linear_regression.py:43   test_data @ self.weights; numpy's matmul raises
\* on a None operand
matmul(X, w) ==
    IF w = None
    THEN [raises |-> TRUE, value |-> None]
    ELSE [raises |-> FALSE,
          value |-> [i \in DOMAIN X |-> FracMul(FracInt(X[i]), w)]]

InitLR ==
    /\ weights = None                      \* linear_regression.py:16
    /\ lmda \in 0..LRMaxLmda               \* linear_regression.py:17
    /\ lr_last_fit = None /\ lr_out = None
    /\ FoldIdle /\ SweepIdle /\ SplitIdle /\ OneHotIdle
    /\ pc = "new" /\ err = "none"

\* linear_regression.py:20-31
LRFit ==
    /\ \E X \in LRArrays : \E Y \in [DOMAIN X -> 0..LRMaxVal] :
          IF Singular(X, lmda)
          THEN /\ err' = "LinAlgError"
               /\ lr_out' = [call |-> "fit", arg |-> X, labels |-> Y,
                             result |-> None]
               /\ UNCHANGED <<weights, lr_last_fit>>
          ELSE /\ weights' = FitWeights(X, Y)
               /\ lr_last_fit' = [training_data |-> X, training_labels |-> Y]
               /\ lr_out' = [call |-> "fit", arg |-> X, labels |-> Y,
                             result |-> matmul(X, weights').value]
               /\ err' = "none"
    /\ pc' = "fit"
    /\ UNCHANGED <<lmda, foldVars, sweepVars, splitVars, ohVars>>

\* linear_regression.py:34-43
LRPredict ==
    /\ \E X \in LRArrays :
          LET r == matmul(X, weights)
          IN  IF r.raises
              THEN /\ err' = "ValueError"
                   /\ lr_out' = [call |-> "predict", arg |-> X,
                                 labels |-> None, result |-> None]
              ELSE /\ err' = "none"
                   /\ lr_out' = [call |-> "predict", arg |-> X,
                                 labels |-> None, result |-> r.value]
    /\ pc' = "predict"
    /\ UNCHANGED <<weights, lmda, lr_last_fit, foldVars, sweepVars, splitVars, ohVars>>

NextLR == LRFit \/ LRPredict

SpecLR == InitLR /\ [][NextLR]_vars

\* w solves the normal equation (X^T X + lmda) w = X^T Y
SolvesNormalEquation(w, X, Y, l) == w[1] * (Dot(X, X) + l) = Dot(X, Y) * w[2]

C10_FitOverwritesPredictReads ==
    [][ /\ lmda' = lmda
        /\ pc' = "predict" => weights' = weights
        /\ (pc' = "fit" /\ err' = "none") =>
              /\ SolvesNormalEquation(weights', lr_out'.arg, lr_out'.labels, lmda)
              /\ lr_last_fit' = [training_data |-> lr_out'.arg,
                                 training_labels |-> lr_out'.labels]
        /\ (pc' = "predict" /\ err' = "none") =>
              /\ lr_last_fit' # None
              /\ SolvesNormalEquation(weights', lr_last_fit'.training_data,
                                      lr_last_fit'.training_labels, lmda)
              /\ \A i \in DOMAIN lr_out'.arg :
                    lr_out'.result[i] = FracMul(FracInt(lr_out'.arg[i]), weights')
      ]_vars

\* predict has answered from a fit with non-zero weights
C10_Witness ==
    /\ pc = "predict" /\ err = "none"
    /\ lr_last_fit # None
    /\ weights # FracInt(0)
    /\ \E i \in DOMAIN lr_out.arg : lr_out.result[i] # FracInt(0)

(***************************************************************************)
(* SpecSweep: the performance values of one sweep and the selection.       *)
(* What a fold contributes is decided by its prediction and ground-truth   *)
(* arrays; the metrics do not depend on the order of the samples, so a     *)
(* fold is given as the bag of its (prediction, ground truth) pairs: a     *)
(* function from pairs to positive counts.  Which bag a data set, a        *)
(* permutation and a neighbour count produce is decided by the KNN model   *)
(* (src/methods/knn.py, not in this source tree): a call draws the bags of *)
(* its K folds from FoldOutcomes.                                          *)
(***************************************************************************)
RECURSIVE SumCounts(_, _)
SumCounts(B, S) ==
    IF S = {} THEN 0
    ELSE LET x == CHOOSE y \in S : TRUE
         IN  B[x] + SumCounts(B, S \ {x})

RECURSIVE FracSumSet(_, _)
\* the sum of term[x] over x in S
FracSumSet(term, S) ==
    IF S = {} THEN FracInt(0)
    ELSE LET x == CHOOSE y \in S : TRUE
         IN  FracAdd(term[x], FracSumSet(term, S \ {x}))

RECURSIVE FracSumSeq(_)
FracSumSeq(q) ==
    IF q = <<>> THEN FracInt(0) ELSE FracAdd(Head(q), FracSumSeq(Tail(q)))

\* utils.py:99   np.mean(pred_labels == gt_labels) * 100.
accuracy_fn(B) ==
    FracMul(Frac(SumCounts(B, {x \in DOMAIN B : x[1] = x[2]}),
                 SumCounts(B, DOMAIN B)),
            FracInt(100))

\* utils.py:101-120
macrof1_fn(B) ==
    LET class_ids == {x[2] : x \in DOMAIN B}
        tp(val) == SumCounts(B, {x \in DOMAIN B : x[1] = val /\ x[2] = val})
        fp(val) == SumCounts(B, {x \in DOMAIN B : x[1] = val /\ x[2] # val})
        fn(val) == SumCounts(B, {x \in DOMAIN B : x[1] # val /\ x[2] = val})
        f1 == [val \in class_ids |->
                 IF tp(val) = 0 THEN FracInt(0)       \* continue
                 ELSE LET precision == Frac(tp(val), tp(val) + fp(val))
                          recall    == Frac(tp(val), tp(val) + fn(val))
                      IN  FracDiv(FracMul(FracInt(2), FracMul(precision, recall)),
                                  FracAdd(precision, recall))]
    IN  FracDiv(FracSumSet(f1, class_ids), FracInt(Cardinality(class_ids)))

\* utils.py:122-134
mse_fn(B) ==
    LET loss == [x \in DOMAIN B |-> (x[1] - x[2]) * (x[1] - x[2]) * B[x]]
    IN  Frac(SumCounts(loss, DOMAIN B), SumCounts(B, DOMAIN B))

\* Folds of a classification call: one sample of class 0, the others of
\* class 1 (and one of class 2 in the last bag); class 2 is a label of the
\* training block.
ClassificationOutcomes ==
    { (<<0, 0>> :> 1) @@ (<<1, 1>> :> FoldSize - 1),   \* all right
      (<<1, 0>> :> 1) @@ (<<0, 1>> :> FoldSize - 1),   \* all wrong
      (<<0, 0>> :> 1) @@ (<<2, 1>> :> FoldSize - 1),   \* class 0 right only
      (<<0, 0>> :> 1) @@ (<<2, 2>> :> 1) @@ (<<2, 1>> :> FoldSize - 2) }

\* Folds of a regression call: targets 0, predictions 0, 1 or 2
RegressionOutcomes ==
    { (<<0, 0>> :> FoldSize),
      (<<1, 0>> :> FoldSize),
      (<<2, 0>> :> 1) @@ (<<0, 0>> :> FoldSize - 1) }

FoldOutcomes(t) ==
    IF IsClassification(t) THEN ClassificationOutcomes ELSE RegressionOutcomes

\* utils.py:211-227: the value one call returns for the bags of its folds
KFoldResult(folds, t) ==
    IF IsClassification(t)
    THEN LET accuracies == [f \in DOMAIN folds |-> accuracy_fn(folds[f])]
             f1_score   == [f \in DOMAIN folds |-> macrof1_fn(folds[f])]
         IN  <<FracDiv(FracSumSeq(accuracies), FracInt(Len(accuracies))),
               FracDiv(FracSumSeq(f1_score), FracInt(Len(f1_score)))>>
    ELSE LET accuracies == [f \in DOMAIN folds |-> mse_fn(folds[f])]
         IN  <<FracDiv(FracSumSeq(accuracies), FracInt(Len(accuracies)))>>

\* the entries of np.array(model_performance): for classification the rows
\* are (accuracy, f1) pairs and the array is two-dimensional; a regression
\* row is the one number <<mse>>
Entries(mp) == UNION {Range(mp[i]) : i \in DOMAIN mp}

FracMaxOf(S) == CHOOSE x \in S : \A y \in S : FracLeq(y, x)
FracMinOf(S) == CHOOSE x \in S : \A y \in S : FracLeq(x, y)

\* utils.py:249,253   np.max / np.min over every entry of the array
Extreme(mp, t) ==
    IF IsClassification(t) THEN FracMaxOf(Entries(mp)) ELSE FracMinOf(Entries(mp))

\* utils.py:250,254   np.where(model_performance == max)[0]: the rows with
\* an entry equal to max, here as 1-based positions
MaxOccurencesIndices(mp, m) == {i \in DOMAIN mp : m \in Range(mp[i])}

SetMax(S) == CHOOSE x \in S : \A y \in S : y <= x

\* utils.py:251,255   max_occurences_indices[-1] + 1: the 0-based index of
\* the last such row plus one, which is its 1-based position
BestK(mp, t) == SetMax(MaxOccurencesIndices(mp, Extreme(mp, t)))

IncreasingLists ==
    {SortedSeq(S) : S \in {S \in SUBSET (1..MaxNeighbors) :
                              Cardinality(S) \in 1..MaxCand}}

InitSweep ==
    /\ K \in 2..MaxK
    /\ T \in {"breed_identifying", "center_locating"}
    /\ M = "knn"
    /\ k_list \in IncreasingLists
    /\ cand = 1
    /\ N = 0 /\ all_indices = <<>> /\ fold_ind = 0
    /\ val_blocks = <<>> /\ train_blocks = <<>> /\ prev_val_blocks = <<>>
    /\ fit_calls = 0 /\ predict_calls = 0
    /\ SweepIdle /\ SplitIdle /\ LRIdle /\ OneHotIdle
    /\ pc = "sweep" /\ err = "none"

\* utils.py:244-245: one candidate's call, start to return
SweepCandidate ==
    /\ pc = "sweep" /\ cand <= Len(k_list)
    /\ \E folds \in [1..K -> FoldOutcomes(T)] :
          model_performance' = Append(model_performance, KFoldResult(folds, T))
    /\ cand' = cand + 1
    /\ pc' = IF cand = Len(k_list) THEN "select" ELSE "sweep"
    /\ UNCHANGED <<N, K, M, T, k_list, all_indices, fold_ind, val_blocks,
                   train_blocks, prev_val_blocks, fit_calls, predict_calls,
                   best_k, best_value, splitVars, ohVars, lrVars, err>>

\* utils.py:247-259
SweepSelect ==
    /\ pc = "select"
    /\ best_value' = Extreme(model_performance, T)
    /\ best_k' = BestK(model_performance, T)
    /\ pc' = "done"
    /\ UNCHANGED <<foldVars, model_performance, splitVars, ohVars, lrVars, err>>

NextSweep == SweepCandidate \/ SweepSelect

SpecSweep == InitSweep /\ [][NextSweep]_vars

(***************************************************************************)
(* Properties of SpecSweep                                                 *)
(***************************************************************************)
\* the averaged performance the selection is documented to go by: accuracy
\* for classification, MSE for regression
Performance(i) == model_performance[i][1]

IsBestPerformance(i) ==
    \A j \in DOMAIN model_performance :
        IF IsClassification(T)
        THEN FracLeq(Performance(j), Performance(i))
        ELSE FracLeq(Performance(i), Performance(j))

BestPositions == {i \in DOMAIN model_performance : IsBestPerformance(i)}

\* the candidates that achieve the returned extreme value
TiedPositions ==
    {i \in DOMAIN model_performance : best_value \in Range(model_performance[i])}

\* C3: when several candidates achieve the same extreme averaged
\* performance, the best k returned is the last of them in k_list order, as
\* the element of k_list itself.
C3_TieReturnsLastElementOfKList ==
    (pc = "done" /\ Cardinality(TiedPositions) >= 2) =>
        best_k = k_list[SetMax(TiedPositions)]

\* C4: the selected candidate has the maximum averaged accuracy
\* (classification) or the minimum averaged MSE (regression), which is the
\* best value returned; the averaged macro-F1 values play no part.
C4_SelectsByAccuracyOrMSE ==
    pc = "done" =>
        /\ best_k \in BestPositions
        /\ best_value = Performance(SetMax(BestPositions))

(***************************************************************************)
(* SpecOneHot: label_to_onehot(labels, C) and onehot_to_label on its       *)
(* result.  A two-dimensional array is a sequence of rows; a row has the   *)
(* columns 0..C-1 at the places 1..C.                                      *)
(***************************************************************************)
\* utils.py:72   int(np.max(labels) + 1)
get_n_classes(l) == (CHOOSE m \in Range(l) : \A x \in Range(l) : x <= m) + 1

\* a slip: the array starts as np.ones
OneHotOfOnes(l, C) == [i \in 1..Len(l) |-> [j \in 1..C |-> 1]]

\* utils.py:24-25   np.zeros([N, C]) with one_hot_labels[i, labels[i]] = 1
OneHotOf(l, C) ==
    [i \in 1..Len(l) |-> [j \in 1..C |-> IF j - 1 = l[i] THEN 1 ELSE 0]]

\* np.argmax of one row: the first column that holds the row's maximum
argmax(row) ==
    LET top == CHOOSE m \in Range(row) : \A x \in Range(row) : x <= m
    IN  (CHOOSE j \in DOMAIN row :
            row[j] = top /\ \A h \in DOMAIN row : row[h] = top => j <= h) - 1

\* utils.py:37   np.argmax(onehot, axis=1)
OnehotToLabelOf(onehot) == [i \in DOMAIN onehot |-> argmax(onehot[i])]

InitOneHot ==
    /\ oh_C \in {None} \cup {<<c>> : c \in 1..MaxClasses}
    /\ \E n \in 0..MaxOneHotN :
          oh_labels \in [1..n -> 0 .. ((IF oh_C = None THEN MaxClasses
                                        ELSE oh_C[1]) - 1)]
    /\ one_hot_labels = None /\ oh_decoded = None
    /\ FoldIdle /\ SweepIdle /\ SplitIdle /\ LRIdle
    /\ pc = "call" /\ err = "none"

\* utils.py:21-26
LabelToOnehot ==
    /\ pc = "call"
    /\ IF oh_C = None /\ oh_labels = <<>>
       THEN \* line 72: np.max of an empty array
            /\ pc' = "error" /\ err' = "ValueError"
            /\ UNCHANGED one_hot_labels
       ELSE LET C == IF oh_C = None THEN get_n_classes(oh_labels) ELSE oh_C[1]
            IN  /\ one_hot_labels' = OneHotOf(oh_labels, C)
                /\ pc' = "encoded"
                /\ UNCHANGED err
    /\ UNCHANGED <<foldVars, sweepVars, splitVars, lrVars,
                   oh_labels, oh_C, oh_decoded>>

\* utils.py:37
OnehotToLabel ==
    /\ pc = "encoded"
    /\ oh_decoded' = OnehotToLabelOf(one_hot_labels)
    /\ pc' = "done"
    /\ UNCHANGED <<foldVars, sweepVars, splitVars, lrVars,
                   oh_labels, oh_C, one_hot_labels, err>>

NextOneHot == LabelToOnehot \/ OnehotToLabel

SpecOneHot == InitOneHot /\ [][NextOneHot]_vars

\* C11: for labels in [0, C) every row of label_to_onehot(L, C) has exactly
\* one entry equal to 1, at the column of its label, and
\* onehot_to_label(label_to_onehot(L, C)) = L.
C11_OneHotRoundTrip ==
    /\ pc \in {"encoded", "done"} =>
          /\ Len(one_hot_labels) = Len(oh_labels)
          /\ \A i \in DOMAIN oh_labels :
                {j \in DOMAIN one_hot_labels[i] : one_hot_labels[i][j] = 1}
                    = {oh_labels[i] + 1}
    /\ pc = "done" => oh_decoded = oh_labels

C11_Witness ==
    /\ pc = "done" /\ oh_C = <<MaxClasses>> /\ Len(oh_labels) = MaxOneHotN
    /\ \E i, j \in DOMAIN oh_labels :
          oh_labels[i] = 0 /\ oh_labels[j] = MaxClasses - 1

====
